---------------------------- MODULE Spec2Model ----------------------------
(***************************************************************************)
(* A model of tf-compare-plans (package comparison): the plan normalizer,  *)
(* the section extractors, the attribute comparator and generatePlanDiff.  *)
(*                                                                         *)
(* JSON values (Go's interface{} after json.Unmarshal) are tagged records  *)
(* [t, v]: t is the dynamic type a Go type assertion tests ("map",         *)
(* "list", "str", "num"), v the payload.  A Go map[string]interface{} is a *)
(* function from strings; a []interface{} is a sequence.  A scalar's       *)
(* payload is its literal text.  Go's map iteration order is unspecified:  *)
(* every `for k, v := range m` loop takes its order as a parameter, and    *)
(* the actions choose it with \E.                                          *)
(*                                                                         *)
(* The textual report (strings.Builder) is a sequence of lines; a line is  *)
(* the tuple of the pieces its fmt.Sprintf format joins, without the       *)
(* trailing newline.                                                       *)
(***************************************************************************)
EXTENDS Integers, Sequences, FiniteSets, TLC

VARIABLES
    origPlan, newPlan,      \* the two parsed documents of ComparePlansAndGenerateDiff
    pc,                     \* its position: "parsed", "sorted", "vars", "res", "done"
    diff, diffMap, hasDiff, \* generatePlanDiff's report, structured diff and flag
    plan, epc, result, outs, \* one document, and the extractors' position and results
    origAttrs, newAttrs,    \* the two effective attribute dictionaries
    apc,                    \* processAttributeDifferences' position
    adiff, added, removed, changed, \* its report fragment and its three lists
    doc, spc,               \* one document given to sortMapKeys, and the position
    sorted, resorted        \* sortMapKeys(doc), and sortMapKeys of that result

vars == <<origPlan, newPlan, pc, diff, diffMap, hasDiff, plan, epc, result, outs,
          origAttrs, newAttrs, apc, adiff, added, removed, changed,
          doc, spc, sorted, resorted>>

planVars == <<origPlan, newPlan, pc, diff, diffMap, hasDiff>>
extractVars == <<plan, epc, result, outs>>
attrVars == <<origAttrs, newAttrs, apc, adiff, added, removed, changed>>
sortVars == <<doc, spc, sorted, resorted>>

-----------------------------------------------------------------------------
(* Values *)

Str(s) == [t |-> "str", v |-> s]
Num(s) == [t |-> "num", v |-> s]
Map(f) == [t |-> "map", v |-> f]
List(s) == [t |-> "list", v |-> s]

\* make(map[string]interface{}): the map with no key.
EmptyMap == <<>>

\* m[k] = x on a Go map.
Put(m, k, x) == [y \in DOMAIN m \cup {k} |-> IF y = k THEN x ELSE m[y]]

\* m[k].(map[string]interface{}) succeeds: the key is there and holds a map.
IsMapAt(m, k) == k \in DOMAIN m /\ m[k].t = "map"

\* m[k].([]interface{}) succeeds.
IsListAt(m, k) == k \in DOMAIN m /\ m[k].t = "list"

\* reflect.DeepEqual on values built by json.Unmarshal and sortMapKeys (no nil
\* map or slice among them): structural equality.
DeepEqual(a, b) == a = b

\* The orders a `range` loop over map m may take: every enumeration of its keys.
RangeOrders(m) ==
    LET n == Cardinality(DOMAIN m)
    IN  {s \in [1..n -> DOMAIN m] : \A i, j \in 1..n : i # j => s[i] # s[j]}

\* contains(slice, s)
contains(slice, s) == \E i \in 1..Len(slice) : slice[i] = s

-----------------------------------------------------------------------------
(* Normalizer *)

RECURSIVE processValue(_)
\* sortMapKeys: a fresh map with every key of m, each value processed.  (The
\* sorted key order only fixes the order of insertion into a Go map, which
\* keeps none.)
sortMapKeys(m) == [k \in DOMAIN m |-> processValue(m[k])]

\* A processValue that fills processedSlice from its last index down.
processValueReversed(x) ==
    IF x.t = "map" THEN Map(sortMapKeys(x.v))
    ELSE IF x.t = "list"
         THEN List([i \in 1..Len(x.v) |-> processValue(x.v[Len(x.v) + 1 - i])])
    ELSE x

processValue(x) ==
    IF x.t = "map" THEN Map(sortMapKeys(x.v))
    ELSE IF x.t = "list" THEN List([i \in 1..Len(x.v) |-> processValue(x.v[i])])
    ELSE x

-----------------------------------------------------------------------------
(* SectionExtractor *)

getVariables(p) ==
    IF IsMapAt(p, "variables")
    THEN LET vs == p["variables"].v
             K == {k \in DOMAIN vs : vs[k].t = "map" /\ "value" \in DOMAIN vs[k].v}
         IN  [k \in K |-> vs[k].v["value"]]
    ELSE EmptyMap

RECURSIVE rootModuleLoop(_, _, _)
\* The loop of processRootModuleResources from element i on.
rootModuleLoop(resources, i, res) ==
    IF i > Len(resources) THEN res
    ELSE LET r == resources[i]
         IN  IF r.t # "map" THEN rootModuleLoop(resources, i + 1, res)
             ELSE IF "address" \notin DOMAIN r.v THEN rootModuleLoop(resources, i + 1, res)
             ELSE IF r.v["address"].t # "str" THEN rootModuleLoop(resources, i + 1, res)
             ELSE rootModuleLoop(resources, i + 1, Put(res, r.v["address"].v, r))

processRootModuleResources(rootModule, res) ==
    IF ~IsListAt(rootModule, "resources") THEN res
    ELSE rootModuleLoop(rootModule["resources"].v, 1, res)

processPriorStateResources(p, res) ==
    IF ~IsMapAt(p, "prior_state") THEN res
    ELSE IF ~IsMapAt(p["prior_state"].v, "values") THEN res
    ELSE IF ~IsMapAt(p["prior_state"].v["values"].v, "root_module") THEN res
    ELSE processRootModuleResources(p["prior_state"].v["values"].v["root_module"].v, res)

processPlannedValuesResources(p, res) ==
    IF ~IsMapAt(p, "planned_values") THEN res
    ELSE IF ~IsMapAt(p["planned_values"].v, "root_module") THEN res
    ELSE processRootModuleResources(p["planned_values"].v["root_module"].v, res)

RECURSIVE resourceChangesLoop(_, _, _)
\* The loop of processResourceChanges from element i on.
resourceChangesLoop(resourceChanges, i, res) ==
    IF i > Len(resourceChanges) THEN res
    ELSE LET c == resourceChanges[i]
         IN  IF c.t # "map" THEN resourceChangesLoop(resourceChanges, i + 1, res)
             ELSE IF "address" \notin DOMAIN c.v
                  THEN resourceChangesLoop(resourceChanges, i + 1, res)
             ELSE IF c.v["address"].t # "str"
                  THEN resourceChangesLoop(resourceChanges, i + 1, res)
             ELSE resourceChangesLoop(resourceChanges, i + 1, Put(res, c.v["address"].v, c))

RECURSIVE resourceChangesLoopKeepFirst(_, _, _)
resourceChangesLoopKeepFirst(resourceChanges, i, res) ==
    IF i > Len(resourceChanges) THEN res
    ELSE LET c == resourceChanges[i]
         IN  IF c.t # "map" \/ "address" \notin DOMAIN c.v
             THEN resourceChangesLoopKeepFirst(resourceChanges, i + 1, res)
             ELSE IF c.v["address"].t # "str" \/ c.v["address"].v \in DOMAIN res
             THEN resourceChangesLoopKeepFirst(resourceChanges, i + 1, res)
             ELSE resourceChangesLoopKeepFirst(resourceChanges, i + 1,
                                               Put(res, c.v["address"].v, c))

\* A processResourceChanges that keeps the record an earlier source gave.
processResourceChangesKeepFirst(p, res) ==
    IF ~IsListAt(p, "resource_changes") THEN res
    ELSE resourceChangesLoopKeepFirst(p["resource_changes"].v, 1, res)

processResourceChanges(p, res) ==
    IF ~IsListAt(p, "resource_changes") THEN res
    ELSE resourceChangesLoop(p["resource_changes"].v, 1, res)

getResources(p) ==
    processResourceChanges(p,
        processPlannedValuesResources(p,
            processPriorStateResources(p, EmptyMap)))

\* A getOutputs in which output_changes overwrites planned_values.outputs.
getOutputsLastWins(p) ==
    LET planned == IF IsMapAt(p, "planned_values") /\ IsMapAt(p["planned_values"].v, "outputs")
                   THEN p["planned_values"].v["outputs"].v
                   ELSE EmptyMap
        changes == IF IsMapAt(p, "output_changes") THEN p["output_changes"].v ELSE EmptyMap
    IN  [k \in DOMAIN planned \cup DOMAIN changes |->
            IF k \in DOMAIN changes THEN changes[k] ELSE planned[k]]

getOutputs(p) ==
    LET planned == IF IsMapAt(p, "planned_values") /\ IsMapAt(p["planned_values"].v, "outputs")
                   THEN p["planned_values"].v["outputs"].v
                   ELSE EmptyMap
        changes == IF IsMapAt(p, "output_changes") THEN p["output_changes"].v ELSE EmptyMap
    IN  [k \in DOMAIN planned \cup DOMAIN changes |->
            IF k \in DOMAIN planned THEN planned[k] ELSE changes[k]]

extractValuesField(resMap, res) ==
    IF ~IsMapAt(resMap, "values") THEN res
    ELSE LET values == resMap["values"].v
         IN  [k \in DOMAIN res \cup DOMAIN values |->
                 IF k \in DOMAIN values THEN values[k] ELSE res[k]]

\* An extractChangeAfterField that leaves alone a key the result has already.
extractChangeAfterFieldKeepFirst(resMap, res) ==
    IF ~IsMapAt(resMap, "change") THEN res
    ELSE IF ~IsMapAt(resMap["change"].v, "after") THEN res
    ELSE LET after == resMap["change"].v["after"].v
         IN  [k \in DOMAIN res \cup DOMAIN after |->
                 IF k \in DOMAIN res THEN res[k] ELSE after[k]]

extractChangeAfterField(resMap, res) ==
    IF ~IsMapAt(resMap, "change") THEN res
    ELSE IF ~IsMapAt(resMap["change"].v, "after") THEN res
    ELSE LET after == resMap["change"].v["after"].v
         IN  [k \in DOMAIN res \cup DOMAIN after |->
                 IF k \in DOMAIN after THEN after[k] ELSE res[k]]

getResourceAttributes(resource) ==
    IF resource.t # "map" THEN EmptyMap
    ELSE extractChangeAfterField(resource.v, extractValuesField(resource.v, EmptyMap))

-----------------------------------------------------------------------------
(* Renderer.  formatValue, printAttributeDiff and formatOutputChange are     *)
(* called by the comparison code but defined in none of the source files;   *)
(* they follow the specification's section 4.5.                             *)

\* Scalars are rendered directly, nested structures by a generic
\* stringification.
formatValue(x) == IF x.t \in {"map", "list"} THEN ToString(x.v) ELSE x.v

\* `~ key: old => new`
formatOutputChange(k, o, n) == <<"~ ", k, ": ", formatValue(o), " => ", formatValue(n)>>

\* The indented two-line form of a changed resource attribute, appended to
\* the report.
printAttributeDiff(text, k, o, n) ==
    text \o << <<"  ~ ", k, ": ", formatValue(o)>>, <<"    => ", formatValue(n)>> >>

-----------------------------------------------------------------------------
(* AttributeComparator *)

\* A priority list in alphabetical order.
priorityAttrsSorted == <<"content", "id", "url">>

priorityAttrs == <<"id", "url", "content">>

\* A skip set that lacks content_md5.
skipAttrsShort == {"response_body_base64", "content_base64sha256", "content_base64sha512",
                   "content_sha1", "content_sha256", "content_sha512"}

skipAttrs == {"response_body_base64", "content_base64sha256", "content_base64sha512",
              "content_md5", "content_sha1", "content_sha256", "content_sha512"}

\* The empty lists and the report position processAttributeDifferences starts from.
NoAttrChanges == [text |-> <<>>, added |-> <<>>, removed |-> <<>>, changed |-> <<>>]

RECURSIVE priorityLoop(_, _, _, _)
\* The loop of processPriorityAttributes from list element i on.
priorityLoop(acc, oa, na, i) ==
    IF i > Len(priorityAttrs) THEN acc
    ELSE LET attrK == priorityAttrs[i]
             origExists == attrK \in DOMAIN oa
             newExists == attrK \in DOMAIN na
         IN  IF origExists /\ newExists /\ ~DeepEqual(oa[attrK], na[attrK])
             THEN priorityLoop(
                      [acc EXCEPT !.text = printAttributeDiff(@, attrK, oa[attrK], na[attrK]),
                                  !.changed = Append(@, [name |-> attrK, old |-> oa[attrK],
                                                         new |-> na[attrK]])],
                      oa, na, i + 1)
             ELSE IF origExists /\ ~newExists
             THEN priorityLoop(
                      [acc EXCEPT !.text = Append(@, <<"  - ", attrK, ": ", formatValue(oa[attrK])>>),
                                  !.removed = Append(@, [name |-> attrK, value |-> oa[attrK]])],
                      oa, na, i + 1)
             ELSE IF ~origExists /\ newExists
             THEN priorityLoop(
                      [acc EXCEPT !.text = Append(@, <<"  + ", attrK, ": ", formatValue(na[attrK])>>),
                                  !.added = Append(@, [name |-> attrK, value |-> na[attrK]])],
                      oa, na, i + 1)
             ELSE priorityLoop(acc, oa, na, i + 1)

processPriorityAttributes(acc, oa, na) == priorityLoop(acc, oa, na, 1)

RECURSIVE regularLoop(_, _, _, _, _)
\* The loop of processRegularAttributeChanges, ranging over oa in order ord,
\* from position i on.
regularLoop(acc, oa, na, ord, i) ==
    IF i > Len(ord) THEN acc
    ELSE LET attrK == ord[i]
         IN  IF contains(priorityAttrs, attrK) \/ attrK \in skipAttrs
             THEN regularLoop(acc, oa, na, ord, i + 1)
             ELSE IF attrK \in DOMAIN na /\ ~DeepEqual(oa[attrK], na[attrK])
             THEN regularLoop(
                      [acc EXCEPT !.text = printAttributeDiff(@, attrK, oa[attrK], na[attrK]),
                                  !.changed = Append(@, [name |-> attrK, old |-> oa[attrK],
                                                         new |-> na[attrK]])],
                      oa, na, ord, i + 1)
             ELSE IF attrK \notin DOMAIN na
             THEN regularLoop(
                      [acc EXCEPT !.text = Append(@, <<"  - ", attrK, ": ", formatValue(oa[attrK])>>),
                                  !.removed = Append(@, [name |-> attrK, value |-> oa[attrK]])],
                      oa, na, ord, i + 1)
             ELSE regularLoop(acc, oa, na, ord, i + 1)

processRegularAttributeChanges(acc, oa, na, ord) == regularLoop(acc, oa, na, ord, 1)

RECURSIVE addedLoop(_, _, _, _, _)
\* The loop of processAddedAttributes, ranging over na in order ord, from
\* position i on.
addedLoop(acc, oa, na, ord, i) ==
    IF i > Len(ord) THEN acc
    ELSE LET attrK == ord[i]
         IN  IF attrK \notin DOMAIN oa /\ ~contains(priorityAttrs, attrK)
                /\ attrK \notin skipAttrs
             THEN addedLoop(
                      [acc EXCEPT !.text = Append(@, <<"  + ", attrK, ": ", formatValue(na[attrK])>>),
                                  !.added = Append(@, [name |-> attrK, value |-> na[attrK]])],
                      oa, na, ord, i + 1)
             ELSE addedLoop(acc, oa, na, ord, i + 1)

RECURSIVE addedLoopNoExistsCheck(_, _, _, _, _)
addedLoopNoExistsCheck(acc, oa, na, ord, i) ==
    IF i > Len(ord) THEN acc
    ELSE LET attrK == ord[i]
         IN  IF ~contains(priorityAttrs, attrK) /\ attrK \notin skipAttrs
             THEN addedLoopNoExistsCheck(
                      [acc EXCEPT !.text = Append(@, <<"  + ", attrK, ": ", formatValue(na[attrK])>>),
                                  !.added = Append(@, [name |-> attrK, value |-> na[attrK]])],
                      oa, na, ord, i + 1)
             ELSE addedLoopNoExistsCheck(acc, oa, na, ord, i + 1)

\* A processAddedAttributes that does not test whether the old dictionary
\* has the attribute.
processAddedAttributesNoExistsCheck(acc, oa, na, ord) ==
    addedLoopNoExistsCheck(acc, oa, na, ord, 1)

processAddedAttributes(acc, oa, na, ord) == addedLoop(acc, oa, na, ord, 1)

\* Every outcome of processAttributeDifferences(diff, oa, na): the lines it
\* appends to the report and the attrChanges map it returns, over the orders
\* its two range loops may take.
processAttributeDifferences(oa, na) ==
    {LET acc == processAddedAttributes(
                    processRegularAttributeChanges(
                        processPriorityAttributes(NoAttrChanges, oa, na), oa, na, o1),
                    oa, na, o2)
     IN  [text |-> acc.text,
          attrs |-> [added |-> acc.added, removed |-> acc.removed, changed |-> acc.changed]]
     : o1 \in RangeOrders(oa), o2 \in RangeOrders(na)}

-----------------------------------------------------------------------------
(* DiffEngine.  A comparison that ranges over a map is the set of its       *)
(* outcomes, one per order its loops may take.                              *)

\* The keys a loop `for k := range m { if Test(k) { append } }` appends, in
\* each order the loop may visit them.
RangeFilter(m, Test(_)) == {SelectSeq(ord, Test) : ord \in RangeOrders(m)}

\* The "+" / "-" lines and the {name, value} records of the keys ks of map m.
ValueLines(sym, ks, m) == [i \in 1..Len(ks) |-> <<sym, ks[i], ": ", formatValue(m[ks[i]])>>]

ValueRecords(ks, m) == [i \in 1..Len(ks) |-> [name |-> ks[i], value |-> m[ks[i]]]]
\* A ChangeRecords with the old and the new value exchanged.
ChangeRecordsSwapped(ks, o, n) ==
    [i \in 1..Len(ks) |-> [name |-> ks[i], old |-> n[ks[i]], new |-> o[ks[i]]]]

ChangeRecords(ks, o, n) == [i \in 1..Len(ks) |-> [name |-> ks[i], old |-> o[ks[i]], new |-> n[ks[i]]]]

\* What a section comparison returns when the two dictionaries are deeply
\* equal: "", nil, false.
NoSectionDiff == [text |-> <<>>, map |-> EmptyMap, hasDiff |-> FALSE]

\* compareVariables past its early return: the three loops over the two
\* dictionaries, which are not deeply equal.
compareVariablesLoops(origVars, newVars) ==
    {[text |-> << <<"Variables:">>, <<"----------">> >>
               \o ValueLines("+ ", ka, newVars)
               \o ValueLines("- ", kr, origVars)
               \o [i \in 1..Len(kc) |->
                      <<"~ ", kc[i], ": ", formatValue(origVars[kc[i]]), " => ",
                        formatValue(newVars[kc[i]])>>]
               \o << <<"">> >>,
      map |-> [added |-> ValueRecords(ka, newVars),
               removed |-> ValueRecords(kr, origVars),
               changed |-> ChangeRecords(kc, origVars, newVars)],
      hasDiff |-> TRUE]
     : ka \in RangeFilter(newVars, LAMBDA k : k \notin DOMAIN origVars),
       kr \in RangeFilter(origVars, LAMBDA k : k \notin DOMAIN newVars),
       kc \in RangeFilter(origVars, LAMBDA k : k \in DOMAIN newVars
                                               /\ ~DeepEqual(origVars[k], newVars[k]))}

\* A compareVariables without the early return on deeply equal dictionaries.
compareVariablesNoEarlyReturn(op, np) ==
    compareVariablesLoops(getVariables(op), getVariables(np))

compareVariables(op, np) ==
    LET origVars == getVariables(op)
        newVars == getVariables(np)
    IN  IF DeepEqual(origVars, newVars) THEN {NoSectionDiff}
        ELSE compareVariablesLoops(origVars, newVars)

\* A compareOutputs whose removal loop looks the key up in origOutputs.
compareOutputsRemovedTypo(origOutputs, newOutputs) ==
    {[text |-> ValueLines("+ ", ka, newOutputs)
               \o ValueLines("- ", kr, origOutputs)
               \o [i \in 1..Len(kc) |->
                      formatOutputChange(kc[i], origOutputs[kc[i]], newOutputs[kc[i]])],
      map |-> [added |-> ValueRecords(ka, newOutputs),
               removed |-> ValueRecords(kr, origOutputs),
               changed |-> ChangeRecords(kc, origOutputs, newOutputs)]]
     : ka \in RangeFilter(newOutputs, LAMBDA k : k \notin DOMAIN origOutputs),
       kr \in RangeFilter(origOutputs, LAMBDA k : k \notin DOMAIN origOutputs),
       kc \in RangeFilter(origOutputs, LAMBDA k : k \in DOMAIN newOutputs
                                                  /\ ~DeepEqual(origOutputs[k], newOutputs[k]))}

compareOutputs(origOutputs, newOutputs) ==
    {[text |-> ValueLines("+ ", ka, newOutputs)
               \o ValueLines("- ", kr, origOutputs)
               \o [i \in 1..Len(kc) |->
                      formatOutputChange(kc[i], origOutputs[kc[i]], newOutputs[kc[i]])],
      map |-> [added |-> ValueRecords(ka, newOutputs),
               removed |-> ValueRecords(kr, origOutputs),
               changed |-> ChangeRecords(kc, origOutputs, newOutputs)]]
     : ka \in RangeFilter(newOutputs, LAMBDA k : k \notin DOMAIN origOutputs),
       kr \in RangeFilter(origOutputs, LAMBDA k : k \notin DOMAIN newOutputs),
       kc \in RangeFilter(origOutputs, LAMBDA k : k \in DOMAIN newOutputs
                                                  /\ ~DeepEqual(origOutputs[k], newOutputs[k]))}

compareOutputSections(op, np) ==
    LET origOutputs == getOutputs(op)
        newOutputs == getOutputs(np)
    IN  IF DeepEqual(origOutputs, newOutputs) THEN {NoSectionDiff}
        ELSE {[text |-> << <<"Outputs:">>, <<"--------">> >> \o r.text,
               map |-> r.map,
               hasDiff |-> TRUE] : r \in compareOutputs(origOutputs, newOutputs)}

processResourceAdditionsAndRemovals(origResources, newResources) ==
    {[text |-> [i \in 1..Len(ka) |-> <<"+ ", ka[i]>>] \o [i \in 1..Len(kr) |-> <<"- ", kr[i]>>],
      added |-> [i \in 1..Len(ka) |-> [address |-> ka[i], value |-> newResources[ka[i]]]],
      removed |-> [i \in 1..Len(kr) |-> [address |-> kr[i], value |-> origResources[kr[i]]]]]
     : ka \in RangeFilter(newResources, LAMBDA k : k \notin DOMAIN origResources),
       kr \in RangeFilter(origResources, LAMBDA k : k \notin DOMAIN newResources)}

RECURSIVE changedResourcesLoop(_, _, _, _)
\* The outcomes of the loop of processChangedResources, ranging over
\* origResources in order ord, from position i on.
changedResourcesLoop(origResources, newResources, ord, i) ==
    IF i > Len(ord) THEN {[text |-> <<>>, changed |-> <<>>]}
    ELSE LET k == ord[i]
             rest == changedResourcesLoop(origResources, newResources, ord, i + 1)
         IN  IF k \notin DOMAIN newResources \/ DeepEqual(origResources[k], newResources[k])
             THEN rest
             ELSE {[text |-> << <<k>> >> \o a.text \o r.text,
                    changed |-> <<[address |-> k, attributes |-> a.attrs]>> \o r.changed]
                   : a \in processAttributeDifferences(
                               getResourceAttributes(origResources[k]),
                               getResourceAttributes(newResources[k])),
                     r \in rest}

\* A processChangedResources that appends an entry only when the attribute
\* comparison listed something.
processChangedResourcesNonEmpty(origResources, newResources) ==
    {[text |-> r.text,
      changed |-> SelectSeq(r.changed,
                            LAMBDA e : \/ e.attributes.added # <<>>
                                       \/ e.attributes.removed # <<>>
                                       \/ e.attributes.changed # <<>>)]
     : r \in UNION {changedResourcesLoop(origResources, newResources, ord, 1)
                    : ord \in RangeOrders(origResources)}}

processChangedResources(origResources, newResources) ==
    UNION {changedResourcesLoop(origResources, newResources, ord, 1)
           : ord \in RangeOrders(origResources)}

compareResources(origResources, newResources) ==
    {[text |-> ar.text \o c.text,
      map |-> [added |-> ar.added, removed |-> ar.removed, changed |-> c.changed]]
     : ar \in processResourceAdditionsAndRemovals(origResources, newResources),
       c \in processChangedResources(origResources, newResources)}

\* A compareResourceSections that extracts both dictionaries from the
\* original plan.
compareResourceSectionsSameArg(op, np) ==
    LET origResources == getResources(op)
        newResources == getResources(op)
    IN  IF DeepEqual(origResources, newResources) THEN {NoSectionDiff}
        ELSE {[text |-> << <<"Resources:">>, <<"-----------">>, <<"">> >> \o r.text \o << <<"">> >>,
               map |-> r.map,
               hasDiff |-> TRUE] : r \in compareResources(origResources, newResources)}

compareResourceSections(op, np) ==
    LET origResources == getResources(op)
        newResources == getResources(np)
    IN  IF DeepEqual(origResources, newResources) THEN {NoSectionDiff}
        ELSE {[text |-> << <<"Resources:">>, <<"-----------">>, <<"">> >> \o r.text \o << <<"">> >>,
               map |-> r.map,
               hasDiff |-> TRUE] : r \in compareResources(origResources, newResources)}

\* generatePlanDiff's handling of one section's comparison r: on a difference
\* set hasDiff, append the section's text and store its map under `name`.
mergeSection(acc, name, r) ==
    IF r.hasDiff
    THEN [text |-> acc.text \o r.text, map |-> Put(acc.map, name, r.map), hasDiff |-> TRUE]
    ELSE acc

\* Every outcome of generatePlanDiff(op, np): (diff.String(), diffMap, hasDiff).
generatePlanDiff(op, np) ==
    {mergeSection(mergeSection(mergeSection(NoSectionDiff, "variables", v), "resources", r),
                  "outputs", o)
     : v \in compareVariables(op, np),
       r \in compareResourceSections(op, np),
       o \in compareOutputSections(op, np)}

-----------------------------------------------------------------------------
(* Inputs *)

\* The most entries a generated section has: variables of a document,
\* outputs of a document, resource records of a document.
MaxEntries == 2

\* The most resource records a document of the extractor runs carries.
MaxRecords == 2

\* The most attribute names of a generated pair of attribute dictionaries.
MaxAttrs == 2

Values == {Str("us-east-1"), Str("us-west-2")}

\* The maps from at most n of Keys into Vals.
Dicts(Keys, Vals, n) ==
    UNION {[K -> Vals] : K \in {K \in SUBSET Keys : Cardinality(K) <= n}}

VarNames == {"region", "zone", "env"}

\* A variable entry: {"value": x}, or an entry without a "value" field.
VarEntries == {Map([value |-> x]) : x \in Values} \cup {Map([description |-> Str("n/a")])}

VarDocs ==
    {[variables |-> Map(m)] : m \in Dicts(VarNames, VarEntries, MaxEntries)}
    \cup {EmptyMap, [variables |-> Str("none")], [format_version |-> Str("1.2")],
          [variables |-> Map([region |-> Str("us-east-1")])]}

OutNames == {"ip", "dns"}

\* A document with outputs pl under planned_values.outputs and ch under
\* output_changes (a section with no entry is left out).
OutDoc(pl, ch) ==
    [k \in (IF pl = EmptyMap THEN {} ELSE {"planned_values"})
           \cup (IF ch = EmptyMap THEN {} ELSE {"output_changes"}) |->
        IF k = "planned_values" THEN Map([outputs |-> Map(pl)]) ELSE Map(ch)]

OutDocs ==
    {OutDoc(pc2[1], pc2[2]) :
        pc2 \in {x \in Dicts(OutNames, Values, MaxEntries) \X Dicts(OutNames, Values, MaxEntries) :
                    Cardinality(DOMAIN x[1]) + Cardinality(DOMAIN x[2]) <= MaxEntries}}
    \cup {[planned_values |-> Map([outputs |-> Str("none")]), output_changes |-> Map([ip |-> Str("us-east-1")])],
          [planned_values |-> Str("none")],
          [output_changes |-> List(<<Str("us-east-1")>>)]}

Addresses == <<"aws_s3_bucket.a", "aws_s3_object.b", "data.http.c">>

\* The fields a resource record carries beside its address.
ResourceBodies ==
    {[values |-> Map([id |-> Str("us-east-1")])],
     [values |-> Map([id |-> Str("us-west-2"), name |-> Str("us-east-1")])],
     [values |-> Map([id |-> Str("us-east-1"), content_md5 |-> Str("us-east-1"),
                      name |-> Str("us-east-1")]),
      change |-> Map([after |-> Map([content_md5 |-> Str("us-west-2"), name |-> Str("us-west-2")])])]}

\* A body that carries its attributes under change.after only.
AfterBody == [change |-> Map([after |-> Map([id |-> Str("us-east-1")])])]

Record(a, body) == Map(Put(body, "address", Str(a)))

RootModule(list) == Map([root_module |-> Map([resources |-> List(list)])])

\* The records of the addresses in dictionary d, in the order of Addresses.
RecordList(d) ==
    LET as == SelectSeq(Addresses, LAMBDA a : a \in DOMAIN d)
    IN  [i \in 1..Len(as) |-> Record(as[i], d[as[i]])]

AddressSet == {Addresses[i] : i \in 1..Len(Addresses)}

ResDocs ==
    {[resource_changes |-> List(RecordList(d))] : d \in Dicts(AddressSet, ResourceBodies, MaxEntries)}
    \cup {[prior_state |-> Map([values |-> RootModule(<<Record(Addresses[1], b)>>)])]
          : b \in ResourceBodies \cup {AfterBody}}
    \cup {[planned_values |-> RootModule(<<Record(Addresses[1], b)>>)]
          : b \in ResourceBodies \cup {AfterBody}}

\* Documents with several sections at once.
MixedDocs ==
    {EmptyMap,
     [variables |-> Map([region |-> Map([value |-> Str("us-east-1")])]),
      resource_changes |-> List(<<Record("aws_s3_bucket.a", [values |-> Map([id |-> Str("us-east-1")])])>>),
      output_changes |-> Map([ip |-> Str("us-east-1")])],
     [variables |-> Map([region |-> Map([value |-> Str("us-west-2")])]),
      resource_changes |-> List(<<Record("aws_s3_bucket.a", [values |-> Map([id |-> Str("us-west-2")])])>>),
      planned_values |-> Map([outputs |-> Map([ip |-> Str("us-west-2")])])],
     [variables |-> Map([region |-> Map([value |-> Str("us-east-1")])]),
      prior_state |-> Map([values |-> RootModule(<<Record("aws_s3_bucket.a", [values |-> Map([id |-> Str("us-west-2")])])>>)]),
      resource_changes |-> List(<<Record("aws_s3_bucket.a", [values |-> Map([id |-> Str("us-east-1")])])>>),
      output_changes |-> Map([ip |-> Str("us-east-1")]),
      format_version |-> Str("1.2")]}

\* The families a pair of documents is drawn from.
DocFamilies == {VarDocs, OutDocs, ResDocs, MixedDocs}

-----------------------------------------------------------------------------
(* ComparePlansAndGenerateDiff on a pair of parsed documents *)

ExtractIdle == plan = EmptyMap /\ epc = "idle" /\ result = EmptyMap /\ outs = EmptyMap

AttrIdle ==
    /\ origAttrs = EmptyMap /\ newAttrs = EmptyMap /\ apc = "idle"
    /\ adiff = <<>> /\ added = <<>> /\ removed = <<>> /\ changed = <<>>

SortIdle == doc = EmptyMap /\ spc = "idle" /\ sorted = EmptyMap /\ resorted = EmptyMap

PlanIdle ==
    /\ origPlan = EmptyMap /\ newPlan = EmptyMap /\ pc = "idle"
    /\ diff = <<>> /\ diffMap = EmptyMap /\ hasDiff = FALSE

Init ==
    /\ \E F \in DocFamilies : origPlan \in F /\ newPlan \in F
    /\ pc = "parsed"
    /\ diff = <<>> /\ diffMap = EmptyMap /\ hasDiff = FALSE
    /\ ExtractIdle /\ AttrIdle /\ SortIdle

\* ComparePlansAndGenerateDiff: origPlan = sortMapKeys(origPlan), and newPlan.
Normalize ==
    /\ pc = "parsed"
    /\ origPlan' = sortMapKeys(origPlan)
    /\ newPlan' = sortMapKeys(newPlan)
    /\ pc' = "sorted"
    /\ UNCHANGED <<diff, diffMap, hasDiff, extractVars, attrVars, sortVars>>

\* One section of generatePlanDiff: the comparison r merged into the report.
Section(name, r, next) ==
    LET acc == mergeSection([text |-> diff, map |-> diffMap, hasDiff |-> hasDiff], name, r)
    IN  /\ diff' = acc.text
        /\ diffMap' = acc.map
        /\ hasDiff' = acc.hasDiff
        /\ pc' = next
        /\ UNCHANGED <<origPlan, newPlan, extractVars, attrVars, sortVars>>

DiffVariables ==
    /\ pc = "sorted"
    /\ \E r \in compareVariables(origPlan, newPlan) : Section("variables", r, "vars")

DiffResources ==
    /\ pc = "vars"
    /\ \E r \in compareResourceSections(origPlan, newPlan) : Section("resources", r, "res")

DiffOutputs ==
    /\ pc = "res"
    /\ \E r \in compareOutputSections(origPlan, newPlan) : Section("outputs", r, "done")

Next == Normalize \/ DiffVariables \/ DiffResources \/ DiffOutputs

Spec == Init /\ [][Next]_vars

-----------------------------------------------------------------------------
(* The section extractors on one document *)

\* What a resource list may hold: records of two addresses, an element that
\* is no map, a record without an address, a record whose address is no string.
RecordItems ==
    {Record(a, b) : a \in {"aws_s3_bucket.a", "aws_s3_object.b"},
                    b \in {[values |-> Map([id |-> Str("us-east-1")])],
                           [change |-> Map([after |-> Map([id |-> Str("us-west-2")])])]}}
    \cup {Str("aws_s3_bucket.a"),
          Map([type |-> Str("aws_s3_bucket")]),
          Map([address |-> Num("7"), type |-> Str("aws_s3_bucket")])}

\* A document with the resource lists prior, planned and changes under
\* prior_state, planned_values and resource_changes (an empty list is left out).
SourcesDoc(prior, planned, changes) ==
    [k \in (IF prior = <<>> THEN {} ELSE {"prior_state"})
           \cup (IF planned = <<>> THEN {} ELSE {"planned_values"})
           \cup (IF changes = <<>> THEN {} ELSE {"resource_changes"}) |->
        IF k = "prior_state" THEN Map([values |-> RootModule(prior)])
        ELSE IF k = "planned_values" THEN RootModule(planned)
        ELSE List(changes)]

\* The ways to split at most n records over the three lists.
Splits(n) == {x \in (0..n) \X (0..n) \X (0..n) : x[1] + x[2] + x[3] <= n}

SourcesDocs ==
    UNION {{SourcesDoc(prior, planned, changes) :
               prior \in [1..x[1] -> RecordItems],
               planned \in [1..x[2] -> RecordItems],
               changes \in [1..x[3] -> RecordItems]} : x \in Splits(MaxRecords)}

\* Documents whose resource sections have another shape than expected.
ShapeDocs ==
    {[prior_state |-> Str("none")],
     [prior_state |-> Map([values |-> Str("none")])],
     [prior_state |-> Map([values |-> Map([outputs |-> Map(EmptyMap)])])],
     [planned_values |-> Map([root_module |-> Map([resources |-> Map(EmptyMap)])])],
     [planned_values |-> Map([root_module |-> List(<<>>)])],
     [resource_changes |-> Map([address |-> Str("aws_s3_bucket.a")])]}

ExtractDocs == SourcesDocs \cup ShapeDocs \cup OutDocs

InitExtract ==
    /\ plan \in ExtractDocs
    /\ epc = "start"
    /\ result = EmptyMap
    /\ outs = EmptyMap
    /\ PlanIdle /\ AttrIdle /\ SortIdle

\* getResources, first call: processPriorStateResources(plan, result).
PriorState ==
    /\ epc = "start"
    /\ result' = processPriorStateResources(plan, result)
    /\ epc' = "prior"
    /\ UNCHANGED <<plan, outs, planVars, attrVars, sortVars>>

\* getResources, second call: processPlannedValuesResources(plan, result).
PlannedValues ==
    /\ epc = "prior"
    /\ result' = processPlannedValuesResources(plan, result)
    /\ epc' = "planned"
    /\ UNCHANGED <<plan, outs, planVars, attrVars, sortVars>>

\* getResources, third call: processResourceChanges(plan, result).
ResourceChanges ==
    /\ epc = "planned"
    /\ result' = processResourceChanges(plan, result)
    /\ epc' = "resources"
    /\ UNCHANGED <<plan, outs, planVars, attrVars, sortVars>>

\* getOutputs(plan).
Outputs ==
    /\ epc = "resources"
    /\ outs' = getOutputs(plan)
    /\ epc' = "done"
    /\ UNCHANGED <<plan, result, planVars, attrVars, sortVars>>

NextExtract == PriorState \/ PlannedValues \/ ResourceChanges \/ Outputs

SpecExtract == InitExtract /\ [][NextExtract]_vars

-----------------------------------------------------------------------------
(* processAttributeDifferences on a pair of attribute dictionaries *)

\* The attribute names of the generated dictionaries: the three priority
\* keys, the seven keys of the skip set and two other keys.
AttrNames ==
    {"id", "url", "content",
     "response_body_base64", "content_base64sha256", "content_base64sha512",
     "content_md5", "content_sha1", "content_sha256", "content_sha512",
     "name", "tags"}

\* How one attribute differs between the two dictionaries.
AttrCases == {"removed", "added", "same", "changed"}

\* The old and the new dictionary of the attributes K that differ as c says.
OldAttrs(c) == [k \in {x \in DOMAIN c : c[x] # "added"} |-> Str("us-east-1")]
NewAttrs(c) ==
    [k \in {x \in DOMAIN c : c[x] # "removed"} |->
        IF c[k] = "changed" THEN Str("us-west-2") ELSE Str("us-east-1")]

InitAttrs ==
    /\ \E c \in Dicts(AttrNames, AttrCases, MaxAttrs) :
          origAttrs = OldAttrs(c) /\ newAttrs = NewAttrs(c)
    /\ apc = "start"
    /\ adiff = <<>> /\ added = <<>> /\ removed = <<>> /\ changed = <<>>
    /\ PlanIdle /\ ExtractIdle /\ SortIdle

\* One pass of processAttributeDifferences: the report and the three lists
\* become those of acc.
Pass(acc, next) ==
    /\ adiff' = acc.text
    /\ added' = acc.added
    /\ removed' = acc.removed
    /\ changed' = acc.changed
    /\ apc' = next
    /\ UNCHANGED <<origAttrs, newAttrs, planVars, extractVars, sortVars>>

AttrAcc == [text |-> adiff, added |-> added, removed |-> removed, changed |-> changed]

PriorityPass ==
    /\ apc = "start"
    /\ Pass(processPriorityAttributes(AttrAcc, origAttrs, newAttrs), "priority")

RegularPass ==
    /\ apc = "priority"
    /\ \E ord \in RangeOrders(origAttrs) :
          Pass(processRegularAttributeChanges(AttrAcc, origAttrs, newAttrs, ord), "regular")

AddedPass ==
    /\ apc = "regular"
    /\ \E ord \in RangeOrders(newAttrs) :
          Pass(processAddedAttributes(AttrAcc, origAttrs, newAttrs, ord), "done")

NextAttrs == PriorityPass \/ RegularPass \/ AddedPass

SpecAttrs == InitAttrs /\ [][NextAttrs]_vars

-----------------------------------------------------------------------------
(* sortMapKeys on one document, and again on its result *)

\* Documents with mappings and sequences nested in one another.
NestedDocs ==
    {[resource_changes |->
         List(<<Map([address |-> Str("aws_s3_bucket.a"),
                     values |-> Map([tags |-> List(<<Str("us-west-2"), Str("us-east-1")>>),
                                     id |-> Str("us-east-1")])]),
                Str("us-east-1"),
                List(<<Num("7"), Map([zone |-> Str("us-west-2"), env |-> Str("us-east-1")])>>)>>),
      format_version |-> Str("1.2")],
     [variables |-> Map([zone |-> Map([value |-> List(<<Str("us-west-2"), Str("us-east-1"),
                                                         Str("us-west-2")>>)])])],
     [outputs |-> List(<<>>)]}

SortDocs == UNION DocFamilies \cup ExtractDocs \cup NestedDocs

InitSort ==
    /\ doc \in SortDocs
    /\ spc = "start"
    /\ sorted = EmptyMap
    /\ resorted = EmptyMap
    /\ PlanIdle /\ ExtractIdle /\ AttrIdle

\* sorted := sortMapKeys(doc).  The function writes to the map and the
\* slices it makes, and to nothing its argument holds.
SortOnce ==
    /\ spc = "start"
    /\ sorted' = sortMapKeys(doc)
    /\ spc' = "once"
    /\ UNCHANGED <<doc, resorted, planVars, extractVars, attrVars>>

\* resorted := sortMapKeys(sorted).
SortTwice ==
    /\ spc = "once"
    /\ resorted' = sortMapKeys(sorted)
    /\ spc' = "twice"
    /\ UNCHANGED <<doc, sorted, planVars, extractVars, attrVars>>

NextSort == SortOnce \/ SortTwice

SpecSort == InitSort /\ [][NextSort]_vars

-----------------------------------------------------------------------------
(* Properties *)

\* The elements of a list.
Range(seq) == {seq[i] : i \in 1..Len(seq)}

\* What the run in progress has returned so far.
Returned == [text |-> diff, map |-> diffMap, hasDiff |-> hasDiff]

\* C1 (no-diff property): a document compared against itself, and against
\* its normalized form, gives hasDiff = false, an empty report and a
\* structured diff with no key.
C1_NoDiff ==
    pc = "done" =>
        /\ DeepEqual(origPlan, newPlan) =>
              hasDiff = FALSE /\ diff = <<>> /\ DOMAIN diffMap = {}
        /\ \A d \in {origPlan, newPlan} :
              \A r \in generatePlanDiff(d, d) \cup generatePlanDiff(d, sortMapKeys(d)) :
                  r.hasDiff = FALSE /\ r.text = <<>> /\ DOMAIN r.map = {}

\* A document with variables, resources and outputs has been compared
\* against itself.
C1_Witness ==
    /\ pc = "done"
    /\ origPlan = newPlan
    /\ DOMAIN getVariables(origPlan) # {}
    /\ DOMAIN getResources(origPlan) # {}
    /\ DOMAIN getOutputs(origPlan) # {}
    /\ hasDiff = FALSE

\* The extracted dictionary of section sec of document d.
SectionOf(sec, d) == IF sec = "variables" THEN getVariables(d) ELSE getOutputs(d)

\* C2 (three-way classification): when the extracted variables (outputs) of
\* the two documents differ, hasDiff is true and the section's diff lists a
\* key as added iff it is only in the new dictionary, as removed iff it is
\* only in the old one, and as changed, with its old and new value, iff it
\* is in both with unequal values.  Old variables {region: us-east-1}
\* against new {region: us-west-2} give exactly one changed record.
C2_ThreeWay ==
    pc = "done" =>
        /\ \A sec \in {"variables", "outputs"} :
              LET o == SectionOf(sec, origPlan)
                  n == SectionOf(sec, newPlan)
                  both == {k \in DOMAIN o \cap DOMAIN n : o[k] # n[k]}
              IN  o # n =>
                    /\ hasDiff
                    /\ sec \in DOMAIN diffMap
                    /\ Range(diffMap[sec].added)
                         = {[name |-> k, value |-> n[k]] : k \in DOMAIN n \ DOMAIN o}
                    /\ Range(diffMap[sec].removed)
                         = {[name |-> k, value |-> o[k]] : k \in DOMAIN o \ DOMAIN n}
                    /\ Range(diffMap[sec].changed)
                         = {[name |-> k, old |-> o[k], new |-> n[k]] : k \in both}
                    /\ Len(diffMap[sec].added) = Cardinality(DOMAIN n \ DOMAIN o)
                    /\ Len(diffMap[sec].removed) = Cardinality(DOMAIN o \ DOMAIN n)
                    /\ Len(diffMap[sec].changed) = Cardinality(both)
        /\ ( /\ origPlan = [variables |-> Map([region |-> Map([value |-> Str("us-east-1")])])]
             /\ newPlan = [variables |-> Map([region |-> Map([value |-> Str("us-west-2")])])] )
           => /\ hasDiff
              /\ diffMap = [variables |->
                    [changed |-> <<[name |-> "region", old |-> Str("us-east-1"),
                                    new |-> Str("us-west-2")]>>,
                     added |-> <<>>, removed |-> <<>>]]

\* A comparison has reported an added, a removed and a changed variable.
C2_Witness ==
    /\ pc = "done"
    /\ "variables" \in DOMAIN diffMap
    /\ diffMap["variables"].added # <<>>
    /\ diffMap["variables"].removed # <<>>
    /\ diffMap["variables"].changed # <<>>

\* The three section dictionaries of the two documents are pairwise deeply equal.
SectionsEqual ==
    /\ DeepEqual(getVariables(origPlan), getVariables(newPlan))
    /\ DeepEqual(getResources(origPlan), getResources(newPlan))
    /\ DeepEqual(getOutputs(origPlan), getOutputs(newPlan))

\* C3 as stated: no diff is reported exactly when the two documents are
\* deeply equal.
C3_NoDiffIffEqual ==
    pc = "done" =>
        ((hasDiff = FALSE /\ DOMAIN diffMap = {}) <=> DeepEqual(origPlan, newPlan))

\* C3 (amended): no diff is reported exactly when the extracted variables,
\* resources and outputs of the two documents are pairwise deeply equal, a
\* section is in the structured diff exactly when its two dictionaries
\* differ, and deeply equal documents report no diff.
C3_NoDiffIffSectionsEqual ==
    pc = "done" =>
        /\ hasDiff = FALSE <=> SectionsEqual
        /\ DOMAIN diffMap = {} <=> SectionsEqual
        /\ "variables" \in DOMAIN diffMap
              <=> ~DeepEqual(getVariables(origPlan), getVariables(newPlan))
        /\ "resources" \in DOMAIN diffMap
              <=> ~DeepEqual(getResources(origPlan), getResources(newPlan))
        /\ "outputs" \in DOMAIN diffMap
              <=> ~DeepEqual(getOutputs(origPlan), getOutputs(newPlan))
        /\ DeepEqual(origPlan, newPlan) => hasDiff = FALSE

\* Two documents that differ, one of them with resources, have been
\* compared and no diff is reported.
C3_Witness ==
    /\ pc = "done"
    /\ ~DeepEqual(origPlan, newPlan)
    /\ DOMAIN getResources(origPlan) # {}
    /\ hasDiff = FALSE
    /\ DOMAIN diffMap = {}

\* The names the three lists of an attribute diff record hold.
ListedNames == {r.name : r \in Range(added) \cup Range(removed) \cup Range(changed)}

\* C4 (skip-set invariant): no key of the skip set is ever in the added,
\* removed or changed list of processAttributeDifferences, however it
\* differs between the old and the new dictionary.
C4_SkipSetNeverListed ==
    ListedNames \cap {"response_body_base64", "content_base64sha256", "content_base64sha512",
                      "content_md5", "content_sha1", "content_sha256", "content_sha512"} = {}

\* Attribute k differs between the two dictionaries.
Differs(k) ==
    \/ (k \in DOMAIN origAttrs) # (k \in DOMAIN newAttrs)
    \/ k \in DOMAIN origAttrs /\ k \in DOMAIN newAttrs /\ origAttrs[k] # newAttrs[k]

\* The comparison is over, and content_md5 was changed in value while
\* another skip-set key was added.
C4_Witness ==
    /\ apc = "done"
    /\ "content_md5" \in DOMAIN origAttrs /\ "content_md5" \in DOMAIN newAttrs
    /\ origAttrs["content_md5"] # newAttrs["content_md5"]
    /\ "content_sha1" \in DOMAIN newAttrs \ DOMAIN origAttrs

\* The positions in the report fragment of the lines written for attribute k.
KeyLines(k) ==
    {i \in 1..Len(adiff) : adiff[i][1] \in {"  ~ ", "  - ", "  + "} /\ adiff[i][2] = k}

\* Attribute k is neither a priority key nor in the skip set.
Regular(k) ==
    /\ k \notin {"id", "url", "content"}
    /\ k \notin {"response_body_base64", "content_base64sha256", "content_base64sha512",
                 "content_md5", "content_sha1", "content_sha256", "content_sha512"}

\* C5 (priority ordering): in the attribute diff of one resource, the line of
\* a priority key that differs is written before the line of every regular
\* key that differs, and the lines of the priority keys come in the order
\* id, url, content.
C5_PriorityFirst ==
    apc = "done" =>
        LET prio == <<"id", "url", "content">>
        IN  /\ \A i \in 1..3 : Differs(prio[i]) => KeyLines(prio[i]) # {}
            /\ \A i \in 1..3 : \A q \in DOMAIN origAttrs \cup DOMAIN newAttrs :
                  (Differs(prio[i]) /\ Regular(q) /\ Differs(q)) =>
                      /\ KeyLines(q) # {}
                      /\ \A a \in KeyLines(prio[i]) : \A b \in KeyLines(q) : a < b
            /\ \A i, j \in 1..3 :
                  (i < j /\ Differs(prio[i]) /\ Differs(prio[j])) =>
                      \A a \in KeyLines(prio[i]) : \A b \in KeyLines(prio[j]) : a < b

\* The comparison is over, and url and the regular key name both differ.
C5_Witness ==
    /\ apc = "done"
    /\ Differs("url")
    /\ Differs("name")
    /\ KeyLines("url") # {}
    /\ KeyLines("name") # {}

\* The resource lists of the document under its three sources.
PriorList ==
    IF /\ IsMapAt(plan, "prior_state")
       /\ IsMapAt(plan["prior_state"].v, "values")
       /\ IsMapAt(plan["prior_state"].v["values"].v, "root_module")
       /\ IsListAt(plan["prior_state"].v["values"].v["root_module"].v, "resources")
    THEN plan["prior_state"].v["values"].v["root_module"].v["resources"].v
    ELSE <<>>

PlannedList ==
    IF /\ IsMapAt(plan, "planned_values")
       /\ IsMapAt(plan["planned_values"].v, "root_module")
       /\ IsListAt(plan["planned_values"].v["root_module"].v, "resources")
    THEN plan["planned_values"].v["root_module"].v["resources"].v
    ELSE <<>>

ChangesList == IF IsListAt(plan, "resource_changes") THEN plan["resource_changes"].v ELSE <<>>

\* Element i of the list is a record with a string address.
WellFormed(list, i) ==
    /\ list[i].t = "map"
    /\ "address" \in DOMAIN list[i].v
    /\ list[i].v["address"].t = "str"

\* The addresses the well-formed records of a list carry, and the last
\* record of address a in it.
AddressesIn(list) == {list[i].v["address"].v : i \in {j \in 1..Len(list) : WellFormed(list, j)}}

LastRecord(list, a) ==
    LET at == {i \in 1..Len(list) : WellFormed(list, i) /\ list[i].v["address"].v = a}
    IN  list[CHOOSE i \in at : \A j \in at : j <= i]

\* C6 (resource precedence, last source wins): once getResources has merged
\* the three sources, it holds exactly the addresses some source carries,
\* each with the record of the latest source that carries it
\* (resource_changes, else planned_values, else prior_state).
C6_LastSourceWins ==
    epc \in {"resources", "done"} =>
        /\ DOMAIN result = AddressesIn(PriorList) \cup AddressesIn(PlannedList)
                            \cup AddressesIn(ChangesList)
        /\ \A a \in DOMAIN result :
              result[a] = IF a \in AddressesIn(ChangesList) THEN LastRecord(ChangesList, a)
                          ELSE IF a \in AddressesIn(PlannedList) THEN LastRecord(PlannedList, a)
                          ELSE LastRecord(PriorList, a)
        /\ result = getResources(plan)

\* An address is in prior_state and in resource_changes with differing
\* records, and the resource_changes record is the one retained.
C6_Witness ==
    /\ epc = "done"
    /\ \E a \in AddressesIn(PriorList) \cap AddressesIn(ChangesList) :
          /\ LastRecord(PriorList, a) # LastRecord(ChangesList, a)
          /\ result[a] = LastRecord(ChangesList, a)

PlannedOutputs ==
    IF IsMapAt(plan, "planned_values") /\ IsMapAt(plan["planned_values"].v, "outputs")
    THEN plan["planned_values"].v["outputs"].v
    ELSE EmptyMap

OutputChanges == IF IsMapAt(plan, "output_changes") THEN plan["output_changes"].v ELSE EmptyMap

\* C7 (outputs precedence, first source wins): getOutputs holds every entry
\* of planned_values.outputs, and an output_changes entry only under a name
\* planned_values.outputs does not have.
C7_FirstSourceWins ==
    epc = "done" =>
        /\ DOMAIN outs = DOMAIN PlannedOutputs \cup DOMAIN OutputChanges
        /\ \A k \in DOMAIN PlannedOutputs : outs[k] = PlannedOutputs[k]
        /\ \A k \in DOMAIN OutputChanges \ DOMAIN PlannedOutputs : outs[k] = OutputChanges[k]

\* A name is in both sources with different values, and the extracted value
\* is that of planned_values.outputs.
C7_Witness ==
    /\ epc = "done"
    /\ \E k \in DOMAIN PlannedOutputs \cap DOMAIN OutputChanges :
          /\ PlannedOutputs[k] # OutputChanges[k]
          /\ outs[k] = PlannedOutputs[k]

\* The keys (field f) of the records of the three lists of a diff record, in
\* the order added, removed, changed.
ListedKeys(m, f) ==
    [i \in 1..Len(m.added) |-> m.added[i][f]]
    \o [i \in 1..Len(m.removed) |-> m.removed[i][f]]
    \o [i \in 1..Len(m.changed) |-> m.changed[i][f]]

NoRepeat(seq) == \A i, j \in 1..Len(seq) : i # j => seq[i] # seq[j]

\* C8: within one comparison no key is listed twice, so a key is in at most
\* one of added, removed and changed: variable names, output names,
\* resource addresses, and the attribute names of each changed resource.
C8_AtMostOneList ==
    pc = "done" =>
        \A sec \in DOMAIN diffMap :
            IF sec = "resources"
            THEN /\ NoRepeat(ListedKeys(diffMap[sec], "address"))
                 /\ \A c \in Range(diffMap[sec].changed) :
                       NoRepeat(ListedKeys(c.attributes, "name"))
            ELSE NoRepeat(ListedKeys(diffMap[sec], "name"))

\* A changed resource has been reported whose priority key id changed and
\* which gained another attribute.
C8_Witness ==
    /\ pc = "done"
    /\ "resources" \in DOMAIN diffMap
    /\ \E c \in Range(diffMap["resources"].changed) :
          /\ "id" \in {r.name : r \in Range(c.attributes.changed)}
          /\ c.attributes.added # <<>>

\* C9: the run's result is the result of every evaluation of
\* generatePlanDiff on the same two documents, whatever order the
\* dictionaries are iterated in.
C9_SameResultEveryEvaluation ==
    pc = "done" => \A r \in generatePlanDiff(origPlan, newPlan) : r = Returned

\* C10 (addition/removal symmetry): for variables and for outputs, the
\* records added when comparing (A, B) are the records removed when
\* comparing (B, A), and the records removed are those added.
C10_AddRemoveSymmetry ==
    pc = "done" =>
        /\ \A r \in compareVariables(newPlan, origPlan) :
              /\ r.hasDiff <=> "variables" \in DOMAIN diffMap
              /\ r.hasDiff =>
                    /\ Range(diffMap["variables"].added) = Range(r.map.removed)
                    /\ Range(diffMap["variables"].removed) = Range(r.map.added)
        /\ \A r \in compareOutputSections(newPlan, origPlan) :
              /\ r.hasDiff <=> "outputs" \in DOMAIN diffMap
              /\ r.hasDiff =>
                    /\ Range(diffMap["outputs"].added) = Range(r.map.removed)
                    /\ Range(diffMap["outputs"].removed) = Range(r.map.added)

\* A comparison has reported an added output.
C10_Witness ==
    /\ pc = "done"
    /\ "outputs" \in DOMAIN diffMap
    /\ diffMap["outputs"].added # <<>>

-----------------------------------------------------------------------------
RECURSIVE OrderKept(_, _)
\* y is x up to the order of mapping keys: a mapping keeps its keys, a
\* sequence its length and the place of each element, a scalar its value.
OrderKept(x, y) ==
    /\ x.t = y.t
    /\ IF x.t = "map"
       THEN DOMAIN x.v = DOMAIN y.v /\ \A k \in DOMAIN x.v : OrderKept(x.v[k], y.v[k])
       ELSE IF x.t = "list"
       THEN Len(x.v) = Len(y.v) /\ \A i \in 1..Len(x.v) : OrderKept(x.v[i], y.v[i])
       ELSE x.v = y.v

\* C11: normalization is idempotent, keeps the order of sequences and leaves
\* its input alone: once sortMapKeys has run on doc and again on its result,
\* the second result is identical to the first, the first result is doc up
\* to the order of mapping keys, and no step changes doc (nor the first
\* result, the input of the second call).
C11_Idempotent ==
    /\ [](spc = "twice" => resorted = sorted /\ OrderKept(Map(doc), Map(sorted)))
    /\ [][doc' = doc /\ (spc = "once" => sorted' = sorted)]_vars

RECURSIVE HasNestedList(_)
\* x holds a sequence of two or more elements, not all alike, under a mapping.
HasNestedList(x) ==
    \/ /\ x.t = "list"
       /\ Len(x.v) >= 2
       /\ \E i, j \in 1..Len(x.v) : x.v[i] # x.v[j]
       /\ \E i \in 1..Len(x.v) : x.v[i].t = "map" /\ Cardinality(DOMAIN x.v[i].v) >= 2
    \/ x.t = "map" /\ \E k \in DOMAIN x.v : HasNestedList(x.v[k])
    \/ x.t = "list" /\ \E i \in 1..Len(x.v) : HasNestedList(x.v[i])

\* sortMapKeys has run twice on a document with a mapping of several keys
\* inside a sequence of several distinct elements inside a mapping.
C11_Witness == spc = "twice" /\ HasNestedList(Map(doc)) /\ Cardinality(DOMAIN doc) >= 2

-----------------------------------------------------------------------------
\* The mapping under field f of mapping m, empty when there is none.
FieldsAt(m, f) == IF f \in DOMAIN m /\ m[f].t = "map" THEN m[f].v ELSE EmptyMap

\* The effective attributes of a record: its values fields overlaid by its
\* change.after fields.
Effective(rec) ==
    LET values == IF rec.t = "map" THEN FieldsAt(rec.v, "values") ELSE EmptyMap
        after == IF rec.t = "map" THEN FieldsAt(FieldsAt(rec.v, "change"), "after") ELSE EmptyMap
    IN  [k \in DOMAIN values \cup DOMAIN after |->
            IF k \in DOMAIN after THEN after[k] ELSE values[k]]

\* The entries of resources.changed in the structured diff.
ChangedResources ==
    IF "resources" \in DOMAIN diffMap THEN diffMap["resources"].changed ELSE <<>>

\* The addresses both documents have, with unequal records.
UnequalAddresses ==
    LET o == getResources(origPlan)
        n == getResources(newPlan)
    IN  {a \in DOMAIN o \cap DOMAIN n : o[a] # n[a]}

\* C12: once the resources are compared, the addresses listed as changed are
\* those on both sides with unequal records, and the attribute diff of each
\* is the complete classification of the effective attributes: a key
\* outside the skip set is in changed (with its old and new value) iff both
\* dictionaries have it with unequal values, in removed (with the old
\* value) iff only the old one has it, in added (with the new value) iff
\* only the new one has it.
C12_AttributeDiffComplete ==
    pc \in {"res", "done"} =>
        /\ {e.address : e \in Range(ChangedResources)} = UnequalAddresses
        /\ \A e \in Range(ChangedResources) :
              LET o == Effective(getResources(origPlan)[e.address])
                  n == Effective(getResources(newPlan)[e.address])
                  a == e.attributes
              IN  \A k \in (DOMAIN o \cup DOMAIN n \cup Range(ListedKeys(a, "name"))) \ skipAttrs :
                     /\ (\E c \in Range(a.changed) : c.name = k)
                           <=> (k \in DOMAIN o \cap DOMAIN n /\ o[k] # n[k])
                     /\ (\E c \in Range(a.removed) : c.name = k)
                           <=> (k \in DOMAIN o \ DOMAIN n)
                     /\ (\E c \in Range(a.added) : c.name = k)
                           <=> (k \in DOMAIN n \ DOMAIN o)
                     /\ \A c \in Range(a.changed) : c.name = k => c.old = o[k] /\ c.new = n[k]
                     /\ \A c \in Range(a.removed) : c.name = k => c.value = o[k]
                     /\ \A c \in Range(a.added) : c.name = k => c.value = n[k]

\* A changed resource has been reported whose new record has the attribute
\* name under values and, with another value, under change.after, and the
\* change of name to the change.after value is listed.
C12_Witness ==
    /\ pc = "done"
    /\ \E e \in Range(ChangedResources) :
          LET rec == getResources(newPlan)[e.address].v
          IN  /\ "name" \in DOMAIN FieldsAt(rec, "values")
              /\ "name" \in DOMAIN FieldsAt(FieldsAt(rec, "change"), "after")
              /\ FieldsAt(rec, "values")["name"] # FieldsAt(FieldsAt(rec, "change"), "after")["name"]
              /\ \E c \in Range(e.attributes.changed) :
                    c.name = "name" /\ c.new = FieldsAt(FieldsAt(rec, "change"), "after")["name"]

-----------------------------------------------------------------------------
\* The attribute diff a lists nothing.
NoAttributeListed(a) == a.added = <<>> /\ a.removed = <<>> /\ a.changed = <<>>

\* C13, as claimed: every entry of resources.changed carries a non-empty
\* attribute diff: at least one of its lists added, removed and changed has
\* an element.
C13_ChangedHasAttributeDiff ==
    pc \in {"res", "done"} =>
        \A e \in Range(ChangedResources) : ~NoAttributeListed(e.attributes)

\* C13, amended: a resource is listed as changed, and hasDiff is true,
\* whenever both documents have its address with unequal records; its
\* attribute diff lists something iff the effective attributes of the two
\* records differ in a key outside the skip set, and is empty otherwise.
C13_EmptyIffAttributesAgree ==
    pc \in {"res", "done"} =>
        /\ {e.address : e \in Range(ChangedResources)} = UnequalAddresses
        /\ UnequalAddresses # {} => hasDiff
        /\ \A e \in Range(ChangedResources) :
              LET o == Effective(getResources(origPlan)[e.address])
                  n == Effective(getResources(newPlan)[e.address])
              IN  NoAttributeListed(e.attributes)
                    <=> \A k \in (DOMAIN o \cup DOMAIN n) \ skipAttrs :
                           k \in DOMAIN o \cap DOMAIN n /\ o[k] = n[k]

\* A resource has been reported as changed, with hasDiff true, whose
\* attribute diff lists nothing: its two records are unequal and their
\* effective attributes are the same.
C13_Witness ==
    /\ pc = "done"
    /\ hasDiff
    /\ \E e \in Range(ChangedResources) :
          /\ NoAttributeListed(e.attributes)
          /\ getResources(origPlan)[e.address] # getResources(newPlan)[e.address]
          /\ Effective(getResources(origPlan)[e.address]) # EmptyMap

=============================================================================
